---- MODULE Spec2Model ----
(***************************************************************************)
(* Model of src/app.py, the Weather Trends Dashboard script.               *)
(*                                                                         *)
(* The script runs top to bottom once per interaction: page set-up, the    *)
(* existence check on weather_trends.csv, the CSV read, the normalisation  *)
(* of column names and of column types, the sidebar controls, the          *)
(* year/region filter, and (when "Generate" was pressed) the three metric  *)
(* tiles, one chart per selected metric and the three insights.            *)
(*                                                                         *)
(* Text is a sequence of one-character strings, "BOM" standing for U+FEFF. *)
(* A number is kept as whole part n and tenths digit f (value n + f/10);   *)
(* a mean is the exact fraction num/den.                                   *)
(***************************************************************************)
EXTENDS Integers, Sequences, FiniteSets, TLC

\* ------------------------------------------------------------------ bounds
MaxRows == 2   \* records in the CSV file
MaxPad  == 2   \* padding characters on each side of a header cell

\* -------------------------------------------------------------------- text
SP  == " "
BOM == "BOM"

LowerCase == <<"a","b","c","d","e","f","g","h","i","j","k","l","m",
               "n","o","p","q","r","s","t","u","v","w","x","y","z">>
UpperCase == <<"A","B","C","D","E","F","G","H","I","J","K","L","M",
               "N","O","P","Q","R","S","T","U","V","W","X","Y","Z">>

\* ord(c) for the characters the model uses
CodePoint(c) ==
    IF c = SP THEN 32
    ELSE IF \E i \in 1..26 : UpperCase[i] = c
         THEN 64 + (CHOOSE i \in 1..26 : UpperCase[i] = c)
    ELSE IF \E i \in 1..26 : LowerCase[i] = c
         THEN 96 + (CHOOSE i \in 1..26 : LowerCase[i] = c)
    ELSE 65279

\* str.isspace() of one character: U+FEFF is not whitespace
IsSpace(c) == c = SP

LowerChar(c) ==
    IF \E i \in 1..26 : UpperCase[i] = c
    THEN LowerCase[CHOOSE i \in 1..26 : UpperCase[i] = c]
    ELSE c

UpperChar(c) ==
    IF \E i \in 1..26 : LowerCase[i] = c
    THEN UpperCase[CHOOSE i \in 1..26 : LowerCase[i] = c]
    ELSE c

\* str.lower()
Lower(s) == [i \in 1..Len(s) |-> LowerChar(s[i])]

\* str.upper(), used only to build inputs
Upper(s) == [i \in 1..Len(s) |-> UpperChar(s[i])]

RECURSIVE LStrip(_)
LStrip(s) == IF s # <<>> /\ IsSpace(Head(s)) THEN LStrip(Tail(s)) ELSE s

RECURSIVE RStrip(_)
RStrip(s) ==
    IF s # <<>> /\ IsSpace(s[Len(s)]) THEN RStrip(SubSeq(s, 1, Len(s) - 1)) ELSE s

\* str.strip()
Strip(s) == RStrip(LStrip(s))

\* str.replace("\ufeff", "")
RemoveBOM(s) == SelectSeq(s, LAMBDA c : c # BOM)

\* s < t for Python strings: lexicographic by code point
RECURSIVE StrLess(_, _)
StrLess(s, t) ==
    IF t = <<>> THEN FALSE
    ELSE IF s = <<>> THEN TRUE
    ELSE IF Head(s) = Head(t) THEN StrLess(Tail(s), Tail(t))
    ELSE CodePoint(Head(s)) < CodePoint(Head(t))

\* sorted(S) for a set of strings
RECURSIVE SortedStrings(_)
SortedStrings(S) ==
    IF S = {} THEN <<>>
    ELSE LET m == CHOOSE x \in S : \A y \in S \ {x} : StrLess(x, y)
         IN  <<m>> \o SortedStrings(S \ {m})

\* ------------------------------------------------------------ column names
Year        == <<"Y","e","a","r">>
Month       == <<"M","o","n","t","h">>
Region      == <<"R","e","g","i","o","n">>
Temperature == <<"T","e","m","p","e","r","a","t","u","r","e">>
Rainfall    == <<"R","a","i","n","f","a","l","l">>
Humidity    == <<"H","u","m","i","d","i","t","y">>
All         == <<"A","l","l">>

\* the dict `mapping`, as (key, value) pairs
mapping ==
    { <<Lower(Year), Year>>, <<Lower(Month), Month>>, <<Lower(Region), Region>>,
      <<Lower(Temperature), Temperature>>, <<Lower(Rainfall), Rainfall>>,
      <<Lower(Humidity), Humidity>> }

InMapping(k) == \E p \in mapping : p[1] = k
MappingAt(k) == (CHOOSE p \in mapping : p[1] = k)[2]

\* df.columns = [c.strip().replace("\ufeff", "") for c in df.columns]
CleanColumn(c) == RemoveBOM(Strip(c))

\* for c in df.columns: if c.lower() in mapping: rename c to mapping[c.lower()]
RenameColumn(c) == IF InMapping(Lower(c)) THEN MappingAt(Lower(c)) ELSE c

\* both steps on one header cell
NormalizeHeader(c) == RenameColumn(CleanColumn(c))

\* ------------------------------------------------------------------- cells
\* k: "num" float, "nan" float NaN / empty CSV cell, "text" string,
\*    "int" Int64 value, "NA" Int64 missing, "None" Python None
Cell(k, n, f, s) == [k |-> k, n |-> n, f |-> f, s |-> s]
Num(n, f) == Cell("num", n, f, <<>>)
Txt(s)    == Cell("text", 0, 0, s)
IntV(n)   == Cell("int", n, 0, <<>>)
NaN       == Cell("nan", 0, 0, <<>>)
NA        == Cell("NA", 0, 0, <<>>)
None      == Cell("None", 0, 0, <<>>)

\* pd.to_numeric(x, errors="coerce") on one cell
ToNumeric(c) == IF c.k = "num" THEN c ELSE NaN

\* .astype("Int64") refuses a float column holding a non-integral value
AsInt64Raises(col) == \E i \in DOMAIN col : col[i].k = "num" /\ col[i].f # 0

\* .astype("Int64") on one cell of a column it accepts
AsInt64(c) == IF c.k = "num" THEN IntV(c.n) ELSE NA

\* .astype(str) on one cell: a missing value becomes the text "nan"
\* (Region cells of the inputs are text or empty)
AsStr(c) == IF c.k = "text" THEN c.s ELSE <<"n","a","n">>

\* -------------------------------------------------------------- DataFrames
NoDF == [columns |-> <<>>, rows |-> <<>>]

HasCol(d, name) == \E i \in 1..Len(d.columns) : d.columns[i] = name
ColIdx(d, name) == CHOOSE i \in 1..Len(d.columns) : d.columns[i] = name

\* d[name]
Column(d, name) == [i \in 1..Len(d.rows) |-> d.rows[i][ColIdx(d, name)]]

\* d[name] = col
SetColumn(d, name, col) ==
    [d EXCEPT !.rows = [i \in 1..Len(d.rows) |->
        [d.rows[i] EXCEPT ![ColIdx(d, name)] = col[i]]]]

\* the rows whose mask element is True, in order
RECURSIVE Masked(_, _)
Masked(rows, mask) ==
    IF rows = <<>> THEN <<>>
    ELSE (IF Head(mask) THEN <<Head(rows)>> ELSE <<>>) \o Masked(Tail(rows), Tail(mask))

\* d[mask] for a boolean Series mask
BoolIndex(d, mask) == [d EXCEPT !.rows = Masked(d.rows, mask)]

\* ------------------------------------------------------------- aggregation
\* a mean: NaN, or the exact fraction num/den
NaNMean  == [nan |-> TRUE, num |-> 0, den |-> 1]
NotYet   == [nan |-> FALSE, num |-> 0, den |-> 0]

RECURSIVE SumTenths(_)
SumTenths(col) ==
    IF col = <<>> THEN 0 ELSE 10 * Head(col).n + Head(col).f + SumTenths(Tail(col))

\* a mean that counts a NaN as a zero
Mean_NullAsZero(col) ==
    LET vals == SelectSeq(col, LAMBDA c : c.k = "num")
    IN  IF col = <<>> THEN NaNMean
        ELSE [nan |-> FALSE, num |-> SumTenths(vals), den |-> 10 * Len(col)]

\* Series.mean(): NaN is skipped; the mean of nothing is NaN
Mean(col) ==
    LET vals == SelectSeq(col, LAMBDA c : c.k = "num")
    IN  IF vals = <<>> THEN NaNMean
        ELSE [nan |-> FALSE, num |-> SumTenths(vals), den |-> 10 * Len(vals)]

\* the threshold test written m >= t
Greater_OrEqual(m, t) == ~m.nan /\ m.num >= t * m.den

\* the threshold test written not (m <= t), which NaN passes
Greater_NotLessEqual(m, t) == m.nan \/ m.num > t * m.den

\* m > t for a float m: every comparison with NaN is False
Greater(m, t) == ~m.nan /\ m.num > t * m.den

\* grouped means that drop the groups whose mean is NaN
GroupMeans_DropNull(d, metric) ==
    LET keys == SortedStrings({Column(d, Region)[i].s :
                    i \in {j \in 1..Len(d.rows) : Column(d, metric)[j].k = "num"}})
    IN  [g \in 1..Len(keys) |->
            [Region |-> keys[g],
             value  |-> Mean(Column(BoolIndex(d,
                            [i \in 1..Len(d.rows) |-> Column(d, Region)[i].s = keys[g]]),
                            metric))]]

\* d.groupby("Region")[[metric]].mean().reset_index(): one row per group
\* key, keys sorted; a group without a single number keeps its row, with NaN
GroupMeans(d, metric) ==
    LET keys == SortedStrings({Column(d, Region)[i].s : i \in 1..Len(d.rows)})
    IN  [g \in 1..Len(keys) |->
            [Region |-> keys[g],
             value  |-> Mean(Column(BoolIndex(d,
                            [i \in 1..Len(d.rows) |-> Column(d, Region)[i].s = keys[g]]),
                            metric))]]

\* ---------------------------------------------------------------- insights
HighTemperature   == "High temperature this year - possible heatwave effects."
NormalTemperature == "Temperatures are within normal seasonal range."
HeavyRainfall     == "Heavy rainfall patterns observed."
LowRainfall       == "Low/Moderate rainfall this year."
HighHumidity      == "High humidity levels detected across regions."
ComfortHumidity   == "Humidity levels remain comfortable."

TemperatureInsight(t) == IF Greater(t, 30) THEN HighTemperature ELSE NormalTemperature
RainfallInsight(r)    == IF Greater(r, 100) THEN HeavyRainfall ELSE LowRainfall
HumidityInsight(h)    == IF Greater(h, 60) THEN HighHumidity ELSE ComfortHumidity

\* the three rules without their else branches
Insights_NoElse(t, r, h) ==
    (IF Greater(t, 30) THEN <<HighTemperature>> ELSE <<>>)
    \o (IF Greater(r, 100) THEN <<HeavyRainfall>> ELSE <<>>)
    \o (IF Greater(h, 60) THEN <<HighHumidity>> ELSE <<>>)

\* the list `insights`
Insights(t, r, h) == <<TemperatureInsight(t), RainfallInsight(r), HumidityInsight(h)>>

\* ------------------------------------------------------------------ filter
\* the mask df["Year"] == year_sel: NA == y is NA, which boolean indexing
\* treats as False; None equals no year
YearMask(d, y) ==
    [i \in 1..Len(d.rows) |->
        /\ Column(d, Year)[i].k = "int"
        /\ y.k = "int"
        /\ Column(d, Year)[i].n = y.n]

\* the mask df_filtered["Region"] == region_sel
RegionMask(d, r) == [i \in 1..Len(d.rows) |-> Column(d, Region)[i].s = r]

\* a filter that never narrows by Region
FilterData_IgnoresRegion(d, y, r) == BoolIndex(d, YearMask(d, y))

\* a filter that also skips the first matching record
FilterData_SkipsFirst(d, y, r) ==
    LET byYear == BoolIndex(d, YearMask(d, y))
        rest   == [byYear EXCEPT !.rows = IF @ = <<>> THEN <<>> ELSE Tail(@)]
    IN  IF r # All THEN BoolIndex(rest, RegionMask(rest, r)) ELSE rest

\* df_filtered = df[Year == year_sel]; if region_sel != "All": narrow by Region
FilterData(d, y, r) ==
    LET byYear == BoolIndex(d, YearMask(d, y))
    IN  IF r # All THEN BoolIndex(byYear, RegionMask(byYear, r)) ELSE byYear

\* ---------------------------------------------------------------- controls
RECURSIVE SortedInts(_)
SortedInts(S) ==
    IF S = {} THEN <<>>
    ELSE LET m == CHOOSE x \in S : \A y \in S : x <= y
         IN  <<m>> \o SortedInts(S \ {m})

\* sorted(df["Year"].dropna().unique())
YearOptions(d) ==
    SortedInts({Column(d, Year)[i].n :
                    i \in {j \in 1..Len(d.rows) : Column(d, Year)[j].k = "int"}})

\* ["All"] + sorted(df["Region"].dropna().unique().tolist())
RegionOptions(d) ==
    <<All>> \o SortedStrings({Column(d, Region)[i].s : i \in 1..Len(d.rows)})

metrics_available == <<Temperature, Rainfall, Humidity>>
ChartTypes == {"Line", "Bar", "Area", "Scatter", "Pie", "Heatmap"}

\* ------------------------------------------------------------- type coercion
\* pd.to_numeric(d[name], errors="coerce"), the column as a sequence
NumericColumn(d, name) ==
    [i \in 1..Len(d.rows) |-> ToNumeric(Column(d, name)[i])]

\* df[name] = pd.to_numeric(df[name], errors="coerce").astype("Int64")
CoerceInt64(d, name) ==
    SetColumn(d, name, [i \in 1..Len(d.rows) |-> AsInt64(NumericColumn(d, name)[i])])

\* df["Region"] = df["Region"].astype(str).str.strip()
CoerceRegion(d) ==
    SetColumn(d, Region, [i \in 1..Len(d.rows) |-> Txt(Strip(AsStr(Column(d, Region)[i])))])

\* df[name] = pd.to_numeric(df[name], errors="coerce")
CoerceFloat(d, name) == SetColumn(d, name, NumericColumn(d, name))

\* lines 53-57 statement by statement: the DataFrame left behind and the
\* exception raised ("none" when all five statements ran)
CoerceTypes(d) ==
    IF ~HasCol(d, Year) THEN [df |-> d, error |-> "KeyError"]
    ELSE IF AsInt64Raises(NumericColumn(d, Year)) THEN [df |-> d, error |-> "TypeError"]
    ELSE LET d1 == CoerceInt64(d, Year) IN
    IF ~HasCol(d1, Month) THEN [df |-> d1, error |-> "KeyError"]
    ELSE IF AsInt64Raises(NumericColumn(d1, Month)) THEN [df |-> d1, error |-> "TypeError"]
    ELSE LET d2 == CoerceInt64(d1, Month) IN
    IF ~HasCol(d2, Region) THEN [df |-> d2, error |-> "KeyError"]
    ELSE LET d3 == CoerceRegion(d2) IN
    IF ~HasCol(d3, Temperature) THEN [df |-> d3, error |-> "KeyError"]
    ELSE LET d4 == CoerceFloat(d3, Temperature) IN
    IF ~HasCol(d4, Rainfall) THEN [df |-> d4, error |-> "KeyError"]
    ELSE LET d5 == CoerceFloat(d4, Rainfall) IN
    IF ~HasCol(d5, Humidity) THEN [df |-> d5, error |-> "KeyError"]
    ELSE [df |-> CoerceFloat(d5, Humidity), error |-> "none"]

\* ------------------------------------------------------------------ inputs
SeqsUpTo(S, n)   == UNION {[1..k -> S] : k \in 0..n}
SeqsFromTo(S, n) == UNION {[1..k -> S] : k \in 1..n}

\* a multiselect returns its options in the order they were picked
Picks(opts) ==
    {q \in SeqsUpTo({opts[i] : i \in 1..Len(opts)}, Len(opts)) :
        \A i, j \in 1..Len(q) : i # j => q[i] # q[j]}

Session(ms, ct, st, g) ==
    [metrics_sel |-> ms, chart_type |-> ct, show_total |-> st, generate |-> g]

Sessions ==
    {Session(ms, ct, st, g) :
        ms \in Picks(metrics_available), ct \in ChartTypes,
        st \in BOOLEAN, g \in BOOLEAN}

City   == <<"C","i","t","y">>
North  == <<"N","o","r","t","h">>
RegA   == <<"A">>
RegB   == <<"B">>
Header == <<Year, Month, Region, Temperature, Rainfall, Humidity>>

NoCsv == [header |-> <<>>, rows |-> <<>>]

Input(e, c, s) == [exists |-> e, csv |-> c, session |-> s]

\* no weather_trends.csv in the directory
MissingFileInputs == {Input(FALSE, NoCsv, s) : s \in Sessions}

\* a well-formed two-record file under every state of the sidebar
ControlInputs ==
    {Input(TRUE,
           [header |-> Header,
            rows   |-> << <<Num(2020, 0), Num(2, 0), Txt(RegA), Num(29, 0), Num(100, 0), Num(60, 0)>>,
                          <<Num(2020, 0), Num(1, 0), Txt(RegB), Num(31, 0), Num(101, 0), Num(61, 0)>> >>],
           s) : s \in Sessions}

\* one header cell written in another case and padded with blanks and BOMs
Paddings == SeqsUpTo({SP, BOM}, MaxPad)
HeaderVariants(name) ==
    {p \o c \o q : p \in Paddings, q \in Paddings, c \in {name, Lower(name), Upper(name)}}

HeaderInput(i, v) ==
    Input(TRUE,
          [header |-> [Header \o <<City>> EXCEPT ![i] = v],
           rows   |-> << <<Num(2020, 0), Num(1, 0), Txt(RegA), Num(31, 0),
                           Num(101, 0), Num(61, 0), Txt(North)>> >>],
          Session(<<Temperature>>, "Line", TRUE, TRUE))

HeaderInputs ==
    UNION {{HeaderInput(i, v) : v \in HeaderVariants((Header \o <<City>>)[i])} : i \in 1..7}

\* Year and Month cells that are integers, decimals, text or empty
YearCells  == {Num(2020, 0), Num(2021, 0), Num(2020, 5), Txt(<<"a","b","c">>), NaN}
MonthCells == {Num(1, 0), Num(1, 5), Txt(<<"x">>)}

CoercionInputs ==
    {Input(TRUE, [header |-> Header, rows |-> rs],
           Session(<<Temperature>>, "Bar", FALSE, TRUE)) :
        rs \in SeqsFromTo({<<y, m, Txt(RegA), Num(29, 0), Num(100, 0), Num(60, 0)>> :
                              y \in YearCells, m \in MonthCells}, MaxRows)}

\* records that differ in Year and Region
FilterYears   == {Num(2020, 0), Num(2021, 0), Txt(<<"a","b","c">>)}
FilterRegions == {Txt(RegA), Txt(<<SP>> \o RegA \o <<SP>>), Txt(RegB), NaN}

FilterInputs ==
    {Input(TRUE, [header |-> Header, rows |-> rs],
           Session(<<Temperature>>, "Line", FALSE, TRUE)) :
        rs \in SeqsFromTo({<<y, Num(1, 0), r, Num(31, 0), Num(101, 0), Num(61, 0)>> :
                              y \in FilterYears, r \in FilterRegions}, MaxRows)}

\* records of one year that differ in Region and in the three metrics
MissingValue == Txt(<<"N","/","A">>)
MetricCells ==
    {<<t, Num(100, 0), Num(60, 0)>> : t \in {Num(29, 0), Num(31, 0), MissingValue}}
    \cup {<<Num(29, 0), r, Num(60, 0)>> : r \in {Num(101, 0), MissingValue}}
    \cup {<<Num(29, 0), Num(100, 0), h>> : h \in {Num(61, 0), MissingValue}}
    \cup {<<Num(31, 0), Num(101, 0), Num(61, 0)>>,
          <<MissingValue, MissingValue, MissingValue>>}

SummaryInputs ==
    {Input(TRUE, [header |-> Header, rows |-> rs],
           Session(metrics_available, "Pie", FALSE, TRUE)) :
        rs \in SeqsFromTo({<<Num(2020, 0), Num(1, 0), Txt(r)>> \o m :
                              r \in {RegA, RegB}, m \in MetricCells}, MaxRows)}

Inputs ==
    MissingFileInputs \cup ControlInputs \cup HeaderInputs \cup CoercionInputs
    \cup FilterInputs \cup SummaryInputs

\* ------------------------------------------------------------ state machine
VARIABLES
    pc,           \* the section of the script about to run
    file_exists,  \* os.path.exists(file_name)
    csv,          \* the decoded contents of weather_trends.csv
    session,      \* what the user has set in the sidebar widgets
    df,           \* the DataFrame
    error,        \* the exception that ended the run, or "none"
    years, regions,
    year_sel, region_sel, metrics_sel, chart_type, show_total, generate,
    df_filtered,
    metrics,      \* the three metric tiles
    figs,         \* one figure per selected metric
    t_avg, r_avg, h_avg,
    insights,
    out           \* the elements sent to the page, in order

vars == <<pc, file_exists, csv, session, df, error, years, regions,
          year_sel, region_sel, metrics_sel, chart_type, show_total, generate,
          df_filtered, metrics, figs, t_avg, r_avg, h_avg, insights, out>>

inputVars   == <<file_exists, csv, session>>
controlVars == <<years, regions, year_sel, region_sel, metrics_sel, chart_type,
                 show_total, generate>>
resultVars  == <<metrics, figs, t_avg, r_avg, h_avg, insights>>

Init ==
    /\ pc = "page"
    /\ \E inp \in Inputs :
          /\ file_exists = inp.exists
          /\ csv = inp.csv
          /\ session = inp.session
    /\ df = NoDF
    /\ error = "none"
    /\ years = <<>>
    /\ regions = <<>>
    /\ year_sel = None
    /\ region_sel = <<>>
    /\ metrics_sel = <<>>
    /\ chart_type = ""
    /\ show_total = FALSE
    /\ generate = FALSE
    /\ df_filtered = NoDF
    /\ metrics = <<>>
    /\ figs = <<>>
    /\ t_avg = NotYet
    /\ r_avg = NotYet
    /\ h_avg = NotYet
    /\ insights = <<>>
    /\ out = <<>>

\* lines 13-27: st.set_page_config and the style sheet
PageConfig ==
    /\ pc = "page"
    /\ out' = out \o <<"page_config", "style">>
    /\ pc' = "load"
    /\ UNCHANGED <<inputVars, df, error, controlVars, df_filtered, resultVars>>

\* the existence check without st.stop()
CheckFile_NoStop ==
    /\ pc = "load"
    /\ out' = IF ~file_exists THEN out \o <<"error">> ELSE out
    /\ pc' = "read"
    /\ UNCHANGED <<inputVars, df, error, controlVars, df_filtered, resultVars>>

\* lines 32-36: a missing file shows st.error and st.stop() ends the run
CheckFile ==
    /\ pc = "load"
    /\ IF ~file_exists
       THEN /\ out' = out \o <<"error">>
            /\ pc' = "stopped"
       ELSE /\ out' = out
            /\ pc' = "read"
    /\ UNCHANGED <<inputVars, df, error, controlVars, df_filtered, resultVars>>

\* lines 38-41: detect the encoding and pd.read_csv
ReadCsv ==
    /\ pc = "read"
    /\ df' = [columns |-> csv.header, rows |-> csv.rows]
    /\ pc' = "columns"
    /\ UNCHANGED <<inputVars, error, controlVars, df_filtered, resultVars, out>>

\* lines 43-51: clean every column name, then rename the recognized ones
NormalizeColumns ==
    /\ pc = "columns"
    /\ df' = [df EXCEPT !.columns =
                 [i \in 1..Len(df.columns) |-> NormalizeHeader(df.columns[i])]]
    /\ pc' = "types"
    /\ UNCHANGED <<inputVars, error, controlVars, df_filtered, resultVars, out>>

\* lines 53-57: coerce the six columns; an exception ends the run
NormalizeTypes ==
    /\ pc = "types"
    /\ df' = CoerceTypes(df).df
    /\ error' = CoerceTypes(df).error
    /\ pc' = IF CoerceTypes(df).error = "none" THEN "header" ELSE "crashed"
    /\ UNCHANGED <<inputVars, controlVars, df_filtered, resultVars, out>>

\* lines 62-77
HeaderBar ==
    /\ pc = "header"
    /\ out' = out \o <<"header_bar">>
    /\ pc' = "sidebar"
    /\ UNCHANGED <<inputVars, df, error, controlVars, df_filtered, resultVars>>

\* lines 82-94: the options come from the data, the values from the user;
\* a selectbox without options returns None
SidebarControls ==
    /\ pc = "sidebar"
    /\ years' = YearOptions(df)
    /\ regions' = RegionOptions(df)
    /\ IF YearOptions(df) = <<>>
       THEN year_sel' = None
       ELSE \E i \in 1..Len(YearOptions(df)) : year_sel' = IntV(YearOptions(df)[i])
    /\ \E i \in 1..Len(RegionOptions(df)) : region_sel' = RegionOptions(df)[i]
    /\ metrics_sel' = session.metrics_sel
    /\ chart_type' = session.chart_type
    /\ show_total' = session.show_total
    /\ generate' = session.generate
    /\ out' = out \o <<"sidebar">>
    /\ pc' = "filter"
    /\ UNCHANGED <<inputVars, df, error, df_filtered, resultVars>>

\* lines 99-101
Filter ==
    /\ pc = "filter"
    /\ df_filtered' = FilterData(df, year_sel, region_sel)
    /\ pc' = "show_total"
    /\ UNCHANGED <<inputVars, df, error, controlVars, resultVars, out>>

\* lines 106-109
ShowEntireDataset ==
    /\ pc = "show_total"
    /\ out' = IF show_total THEN out \o <<"dataframe">> ELSE out
    /\ pc' = "visualize"
    /\ UNCHANGED <<inputVars, df, error, controlVars, df_filtered, resultVars>>

\* line 114, button not pressed: the script ends here
NoVisualization ==
    /\ pc = "visualize"
    /\ ~generate
    /\ pc' = "done"
    /\ UNCHANGED <<inputVars, df, error, controlVars, df_filtered, resultVars, out>>

\* lines 114-121: the three metric tiles (the value before its ".2f" rendering)
ShowMetrics ==
    /\ pc = "visualize"
    /\ generate
    /\ metrics' = [i \in 1..3 |->
                      [label |-> metrics_available[i],
                       value |-> Mean(Column(df_filtered, metrics_available[i]))]]
    /\ out' = out \o <<"metric", "metric", "metric">>
    /\ pc' = "charts"
    /\ UNCHANGED <<inputVars, df, error, controlVars, df_filtered, figs,
                   t_avg, r_avg, h_avg, insights>>

\* the figure built for one metric; only the Pie chart is fed derived data
Figure(ct, d, metric) ==
    [type |-> ct, metric |-> metric,
     avg  |-> IF ct = "Pie" THEN GroupMeans(d, metric) ELSE <<>>]

\* lines 123-146: one chart per selected metric
RenderCharts ==
    /\ pc = "charts"
    /\ figs' = [i \in 1..Len(metrics_sel) |->
                   Figure(chart_type, df_filtered, metrics_sel[i])]
    /\ out' = out \o [i \in 1..Len(metrics_sel) |->
                         IF chart_type = "Heatmap" THEN "pyplot" ELSE "plotly_chart"]
    /\ pc' = "insights"
    /\ UNCHANGED <<inputVars, df, error, controlVars, df_filtered, metrics,
                   t_avg, r_avg, h_avg, insights>>

\* lines 151-174
ShowInsights ==
    /\ pc = "insights"
    /\ t_avg' = Mean(Column(df_filtered, Temperature))
    /\ r_avg' = Mean(Column(df_filtered, Rainfall))
    /\ h_avg' = Mean(Column(df_filtered, Humidity))
    /\ insights' = Insights(Mean(Column(df_filtered, Temperature)),
                            Mean(Column(df_filtered, Rainfall)),
                            Mean(Column(df_filtered, Humidity)))
    /\ out' = out \o <<"insights">>
    /\ pc' = "done"
    /\ UNCHANGED <<inputVars, df, error, controlVars, df_filtered, metrics, figs>>

Next ==
    \/ PageConfig
    \/ CheckFile
    \/ ReadCsv
    \/ NormalizeColumns
    \/ NormalizeTypes
    \/ HeaderBar
    \/ SidebarControls
    \/ Filter
    \/ ShowEntireDataset
    \/ NoVisualization
    \/ ShowMetrics
    \/ RenderCharts
    \/ ShowInsights

Spec == Init /\ [][Next]_vars

\* ------------------------------------------------------------------ claims
Filtered  == pc \in {"show_total", "visualize", "charts", "insights", "done"}
Reported  == pc = "done" /\ generate

YearOf(d, i)   == d.rows[i][ColIdx(d, Year)]
RegionOf(d, i) == d.rows[i][ColIdx(d, Region)].s

\* the records of df that the selection (year_sel, region_sel) asks for
Wanted ==
    {i \in 1..Len(df.rows) :
        /\ YearOf(df, i) = year_sel
        /\ (region_sel = All \/ RegionOf(df, i) = region_sel)}

\* the k-th smallest element of a set of indices
Nth(S, k) == CHOOSE i \in S : Cardinality({j \in S : j < i}) = k - 1

\* C1: the filtered dataset is exactly the records of the dataset, in their
\* original order, whose Year equals the selected year and whose Region
\* equals the selected region unless that is "All"; a record with a null
\* Year is never in it, and an empty result raises nothing.
C1_FilterExact ==
    Filtered =>
        /\ df_filtered.columns = df.columns
        /\ Len(df_filtered.rows) = Cardinality(Wanted)
        /\ \A k \in 1..Len(df_filtered.rows) : df_filtered.rows[k] = df.rows[Nth(Wanted, k)]
        /\ \A k \in 1..Len(df_filtered.rows) : YearOf(df_filtered, k).k = "int"
        /\ error = "none"

C1_Witness ==
    /\ Filtered
    /\ region_sel # All
    /\ df_filtered.rows # <<>>
    /\ Len(df_filtered.rows) < Len(df.rows)
    /\ \E i \in 1..Len(df.rows) : YearOf(df, i) = NA

\* C2: when the file does not exist the run shows the file-not-found error
\* and stops: it never reads the file, normalizes, builds the controls,
\* filters, computes a mean or renders a chart, a metric or an insight.
C2_MissingFileHalts ==
    ~file_exists =>
        /\ pc \in {"page", "load", "stopped"}
        /\ df = NoDF /\ df_filtered = NoDF
        /\ years = <<>> /\ regions = <<>> /\ metrics_sel = <<>>
        /\ metrics = <<>> /\ figs = <<>> /\ insights = <<>>
        /\ t_avg = NotYet /\ r_avg = NotYet /\ h_avg = NotYet
        /\ \A i \in 1..Len(out) : out[i] \in {"page_config", "style", "error"}
        /\ (pc = "stopped" => out[Len(out)] = "error")

C2_Witness == ~file_exists /\ pc = "stopped" /\ out = <<"page_config", "style", "error">>

\* the sum, in tenths, of the cells of col at the indices S
RECURSIVE TenthsAt(_, _)
TenthsAt(col, S) ==
    IF S = {} THEN 0
    ELSE LET i == CHOOSE j \in S : TRUE
         IN  10 * col[i].n + col[i].f + TenthsAt(col, S \ {i})

HasNumber(d, name, i) == d.rows[i][ColIdx(d, name)].k = "num"

\* m is the arithmetic mean of the numbers of column name in the rows S of d,
\* null when there is none
IsMeanOf(m, d, name, S) ==
    LET nums == {i \in S : HasNumber(d, name, i)}
    IN  IF nums = {} THEN m = NaNMean
        ELSE /\ ~m.nan
             /\ m.den = 10 * Cardinality(nums)
             /\ m.num = TenthsAt(Column(d, name), nums)

\* C3: each of the three summary means is the arithmetic mean of the
\* metric's non-null values only: a record with a null in one metric still
\* counts for the other metrics, and an empty or all-null metric gives a
\* null mean, not zero, without an error.
C3_MeanOfNonNull ==
    (pc \in {"charts", "insights"} \/ Reported) =>
        /\ Len(metrics) = 3
        /\ \A i \in 1..3 :
              /\ metrics[i].label = metrics_available[i]
              /\ IsMeanOf(metrics[i].value, df_filtered, metrics_available[i],
                          1..Len(df_filtered.rows))
        /\ error = "none"

C3_Witness ==
    /\ pc = "charts"
    /\ \E i, j \in 1..Len(df_filtered.rows) :
          /\ ~HasNumber(df_filtered, Temperature, i)
          /\ HasNumber(df_filtered, Rainfall, i)
          /\ HasNumber(df_filtered, Temperature, j)
    /\ metrics[1].value.den < metrics[2].value.den
    /\ metrics[2].value.den = 10 * Len(df_filtered.rows)

\* C4: the insight rules always produce exactly three findings, one per
\* metric, in the order Temperature, Rainfall, Humidity, null means included.
C4_ThreeFindings ==
    Reported =>
        /\ Len(insights) = 3
        /\ insights[1] \in {HighTemperature, NormalTemperature}
        /\ insights[2] \in {HeavyRainfall, LowRainfall}
        /\ insights[3] \in {HighHumidity, ComfortHumidity}

C4_Witness ==
    /\ Reported
    /\ insights = <<NormalTemperature, LowRainfall, HighHumidity>>
    /\ ~t_avg.nan /\ ~r_avg.nan /\ ~h_avg.nan

\* C5: the thresholds are strict: "high temperature" iff the mean is above
\* 30, "heavy rainfall" iff above 100, "high humidity" iff above 60; a mean
\* equal to its threshold gives the normal / low-moderate / comfortable finding.
C5_StrictThresholds ==
    Reported =>
        /\ insights[1] = HighTemperature <=> (~t_avg.nan /\ t_avg.num > 30 * t_avg.den)
        /\ insights[2] = HeavyRainfall   <=> (~r_avg.nan /\ r_avg.num > 100 * r_avg.den)
        /\ insights[3] = HighHumidity    <=> (~h_avg.nan /\ h_avg.num > 60 * h_avg.den)
        /\ (~t_avg.nan /\ t_avg.num = 30 * t_avg.den)  => insights[1] = NormalTemperature
        /\ (~r_avg.nan /\ r_avg.num = 100 * r_avg.den) => insights[2] = LowRainfall
        /\ (~h_avg.nan /\ h_avg.num = 60 * h_avg.den)  => insights[3] = ComfortHumidity

C5_Witness ==
    /\ Reported
    /\ ~t_avg.nan /\ t_avg.num = 30 * t_avg.den /\ insights[1] = NormalTemperature
    /\ ~r_avg.nan /\ r_avg.num = 100 * r_avg.den /\ insights[2] = LowRainfall
    /\ ~h_avg.nan /\ h_avg.num > 60 * h_avg.den /\ insights[3] = HighHumidity

Coerced == pc \notin {"page", "load", "read", "columns", "types", "stopped"}

\* the integer a raw cell denotes, null when it denotes none
IntegerOrNull(raw) == IF raw.k = "num" /\ raw.f = 0 THEN IntV(raw.n) ELSE NA

\* C6: normalizing Year and Month never raises: a cell that parses as an
\* integer becomes that integer and every other cell (text, empty, a number
\* with a fractional part) becomes null.
C6_CoercionNeverRaises ==
    Coerced =>
        /\ error # "TypeError"
        /\ \A name \in {Year, Month} :
              HasCol(df, name) =>
                 \A i \in 1..Len(df.rows) :
                    df.rows[i][ColIdx(df, name)] = IntegerOrNull(csv.rows[i][ColIdx(df, name)])

\* a header cell of the shape the claim speaks of: at most one BOM, in front
LeadingBomOnly(cell) == \A i \in 1..Len(cell) : cell[i] = BOM => i = 1

\* the cell without its BOM and its blanks
BareName(cell) == SelectSeq(cell, LAMBDA c : c # BOM /\ c # SP)

Recognized(name) == \E h \in 1..Len(Header) : Lower(name) = Lower(Header[h])
Canonical(name)  == Header[CHOOSE h \in 1..Len(Header) : Lower(name) = Lower(Header[h])]

\* C7: a header cell that is a recognized name in any letter case, with any
\* leading/trailing whitespace and a leading byte-order mark, gets its
\* canonical name (BOM + " Year " becomes "Year"); an unrecognized header
\* passes through trimmed.
C7_HeadersCanonical ==
    pc \notin {"page", "load", "read", "columns", "stopped"} =>
        \A i \in 1..Len(csv.header) :
            LeadingBomOnly(csv.header[i]) =>
                df.columns[i] = IF Recognized(BareName(csv.header[i]))
                                THEN Canonical(BareName(csv.header[i]))
                                ELSE BareName(csv.header[i])

PieFigs == {i \in 1..Len(figs) : figs[i].type = "Pie"}

RegionsOf(d) == {RegionOf(d, i) : i \in 1..Len(d.rows)}
RowsOf(d, r) == {i \in 1..Len(d.rows) : RegionOf(d, i) = r}

Ascending(avg) == \A g \in 1..(Len(avg) - 1) : StrLess(avg[g].Region, avg[g + 1].Region)

\* C8 as stated: the grouped means of the Pie chart hold one entry per region
\* with a non-null value of the metric, in a fixed order, and no entry for a
\* region whose values are all null.
C8_NoEntryForNullRegion ==
    \A i \in PieFigs :
        /\ {figs[i].avg[g].Region : g \in 1..Len(figs[i].avg)}
             = {r \in RegionsOf(df_filtered) :
                   \E j \in RowsOf(df_filtered, r) : HasNumber(df_filtered, figs[i].metric, j)}
        /\ Ascending(figs[i].avg)
        /\ \A g \in 1..Len(figs[i].avg) : ~figs[i].avg[g].value.nan

\* C8 amended: the grouped means hold one entry per region of the filtered
\* dataset, in ascending region order; the entry carries the mean of the
\* region's non-null values, and a null mean when the region has none.
C8_EntryPerRegion ==
    \A i \in PieFigs :
        /\ {figs[i].avg[g].Region : g \in 1..Len(figs[i].avg)} = RegionsOf(df_filtered)
        /\ Ascending(figs[i].avg)
        /\ \A g \in 1..Len(figs[i].avg) :
              IsMeanOf(figs[i].avg[g].value, df_filtered, figs[i].metric,
                       RowsOf(df_filtered, figs[i].avg[g].Region))

C8_Witness ==
    \E i \in PieFigs :
        /\ Len(figs[i].avg) = 2
        /\ figs[i].avg[1].value.nan
        /\ ~figs[i].avg[2].value.nan

\* C9: filtering the filtered dataset again with the same year and region
\* gives the filtered dataset.
C9_FilterIdempotent ==
    Filtered => FilterData(df_filtered, year_sel, region_sel) = df_filtered

C9_Witness ==
    /\ Filtered
    /\ region_sel = All
    /\ Len(df_filtered.rows) = MaxRows
    /\ FilterData(df_filtered, year_sel, region_sel).rows # <<>>

\* C10: a null mean gives the below-threshold finding of its metric (normal
\* temperature / low-moderate rainfall / comfortable humidity); no other
\* finding is produced and nothing is raised.
C10_NullMeanBelowThreshold ==
    Reported =>
        /\ t_avg.nan => insights[1] = NormalTemperature
        /\ r_avg.nan => insights[2] = LowRainfall
        /\ h_avg.nan => insights[3] = ComfortHumidity
        /\ Len(insights) = 3
        /\ error = "none"

C10_Witness ==
    /\ Reported
    /\ df_filtered.rows = <<>>
    /\ t_avg.nan /\ r_avg.nan /\ h_avg.nan
    /\ insights = <<NormalTemperature, LowRainfall, ComfortHumidity>>

====
